---- MODULE Spec2Model ----
(***************************************************************************)
(* Model of the orange CLI (src/src/main.rs, src/src/config.rs):           *)
(*   - cmd_daemon: the event loop, its webhook fan-out, the conditional    *)
(*     acknowledgment and the Ctrl+C shutdown;                             *)
(*   - cmd_get_event / cmd_event_handled: the one-shot queue commands;     *)
(*   - Config::into_wallet_config: the configuration translation.          *)
(*                                                                         *)
(* Library behaviour the code relies on, as documented by the libraries:   *)
(*   - Wallet::next_event / next_event_async return the head of the event  *)
(*     queue without removing it; only event_handled removes it            *)
(*     (main.rs:70-73, 348).                                               *)
(*   - tokio::select! polls its branches starting from a random one and    *)
(*     completes with the first that is ready; the futures of the other    *)
(*     branches are dropped before the handler runs.                       *)
(*   - tokio::signal::ctrl_c(): a listener is registered when the future   *)
(*     is first polled; it completes on the first Ctrl+C received after    *)
(*     that poll.  The OS handler is installed by the first registration.  *)
(*   - #[tokio::main]: when main returns the runtime is dropped and every  *)
(*     task still outstanding is dropped with it.                          *)
(***************************************************************************)
EXTENDS Integers, Sequences, FiniteSets, TLC

\* ---------------------------------------------------------------- bounds
MaxHooks == 2
MaxEvents == 1
MaxIters == 2
MaxTasks == 3
MaxSignals == 1
MaxCmds == 1

\* The --webhook arguments of a run are a prefix of UrlList.
UrlList == <<"http://a", "http://b", "http://c", "http://d">>
\* The n-th event the wallet queues.
EventSource(n) ==
    IF n % 2 = 1
    THEN [kind |-> "PaymentReceived", payment_id |-> n, payment_hash |-> n,
          amount_msat |-> 5000, custom_records |-> <<>>, lsp_fee_msats |-> <<>>]
    ELSE [kind |-> "ChannelOpened", channel_id |-> n, user_channel_id |-> n,
          counterparty_node_id |-> "03bb", funding_txo |-> n]

\* Option<T>: None is the empty sequence, Some(x) the one-element sequence.
None == <<>>
Some(x) == <<x>>

NoValue == [type |-> "unset"]
NoOutput == [output |-> "none"]

VARIABLES
    webhooks,     \* cmd_daemon's webhooks: &[String]
    queue,        \* the wallet's event queue (head first)
    produced,     \* number of events the wallet has queued so far
    pc,           \* position of main / cmd_daemon
    value,        \* cmd_daemon's `value` (with event, timestamp) in the event branch
    idx,          \* position of `for url in webhooks`
    iters,        \* one record per completed select on the event branch
    tasks,        \* the tasks created by tokio::spawn, in spawn order
    installed,    \* the process has a SIGINT handler (a ctrl_c() was polled)
    listening,    \* a ctrl_c() future of the current select is registered
    sigPending,   \* SIGINT taken by the OS handler, not yet broadcast
    sigSeen,      \* the registered listener has been notified
    sigSent,      \* number of SIGINTs sent to the process
    sigLost,      \* number of SIGINTs broadcast to no listener or dropped with one
    stderr,       \* counts of the lines written by eprintln!
    stopCalls,    \* number of wallet.stop() calls
    inflight,     \* cmd_daemon's calls on the wallet that have not returned
    cmdRuns,      \* number of one-shot commands run so far
    cmdAcks,      \* number of one-shot event-handled commands that succeeded
    cmdOut,       \* the document printed by the last one-shot command
    cfg,          \* the Config given to into_wallet_config
    cfgResult,    \* its Result
    cfgChecks,    \* the checks into_wallet_config evaluated, in order
    mpc,          \* position of main in the current run of the binary
    command,      \* cli.command of the current run
    step,         \* position inside the command function
    calls,        \* the wallet operations the current run has invoked, in order
    result,       \* the command function's Result
    stdout,       \* the documents the current run has printed
    exitCode,     \* Option: the exit status of the current run
    loaded,       \* the Result of Config::load
    ledger,       \* the wallet's payments and lightning address
    runs,         \* number of runs of the binary started so far
    lastGet,      \* Option: what get-event last reported, since the last removal
    serEvent,     \* the Event given to serialize_event
    serTime,      \* the timestamp given to serialize_event
    serDoc        \* the document it returned

daemonVars == <<webhooks, queue, produced, pc, value, idx, iters, tasks,
                installed, listening, sigPending, sigSeen, sigSent, sigLost,
                stderr, stopCalls, inflight, cmdRuns, cmdAcks, cmdOut>>
cfgVars == <<cfg, cfgResult, cfgChecks>>
mainVars == <<mpc, command, step, calls, result, stdout, exitCode, loaded, ledger,
              runs, lastGet>>
serVars == <<serEvent, serTime, serDoc>>
vars == <<daemonVars, cfgVars, mainVars, serVars>>

\* ------------------------------------------------------------- helpers
Range(s) == {s[i] : i \in DOMAIN s}

\* SystemTime::now() as seconds since the epoch, read once per iteration of
\* the loop: a later iteration reads a later clock.
Timestamps == {1700000000 + 60 * Len(iters)}
\* The same reading in a one-shot command: a later run reads a later clock.
Now == 1700000000 + 60 * runs

\* ------------------------------------------------- event serialization
EventTag(kind) ==
    CASE kind = "PaymentSuccessful" -> "payment_successful"
      [] kind = "PaymentFailed" -> "payment_failed"
      [] kind = "PaymentReceived" -> "payment_received"
      [] kind = "OnchainPaymentReceived" -> "onchain_payment_received"
      [] kind = "ChannelOpened" -> "channel_opened"
      [] kind = "ChannelClosed" -> "channel_closed"
      [] kind = "RebalanceInitiated" -> "rebalance_initiated"
      [] kind = "RebalanceSuccessful" -> "rebalance_successful"
      [] kind = "SplicePending" -> "splice_pending"

\* x.to_string(), format!("{x:?}") and x.to_lower_hex_string(): the three
\* renderings are different strings of the same value.
to_string(x) == <<"display", x>>
debug(x) == <<"debug", x>>
to_lower_hex_string(x) == <<"hex", x>>
\* opt.map(|x| format!("{x:?}")): null stays null.
map_debug(opt) == IF opt = <<>> THEN <<>> ELSE <<debug(opt[1])>>

\* Variant of msat_to_sats: the quotient is rounded up.
msat_to_sats_rounding_up(amount_msat) == (amount_msat + 999) \div 1000

\* amount_msat / 1000 on u64
msat_to_sats(amount_msat) == amount_msat \div 1000

serialize_event(event, timestamp) ==
    CASE event.kind = "PaymentSuccessful" ->
            [type |-> EventTag(event.kind), timestamp |-> timestamp,
             payment_id |-> to_string(event.payment_id),
             payment_hash |-> debug(event.payment_hash),
             payment_preimage |-> debug(event.payment_preimage),
             fee_paid_msat |-> event.fee_paid_msat]
      [] event.kind = "PaymentFailed" ->
            [type |-> EventTag(event.kind), timestamp |-> timestamp,
             payment_id |-> to_string(event.payment_id),
             payment_hash |-> map_debug(event.payment_hash),
             reason |-> map_debug(event.reason)]
      [] event.kind = "PaymentReceived" ->
            [type |-> EventTag(event.kind), timestamp |-> timestamp,
             payment_id |-> to_string(event.payment_id),
             payment_hash |-> debug(event.payment_hash),
             amount_msat |-> event.amount_msat,
             amount_sats |-> msat_to_sats(event.amount_msat),
             custom_records_count |-> Len(event.custom_records),
             lsp_fee_msats |-> event.lsp_fee_msats]
      [] event.kind = "OnchainPaymentReceived" ->
            [type |-> EventTag(event.kind), timestamp |-> timestamp,
             payment_id |-> to_string(event.payment_id),
             txid |-> to_string(event.txid),
             amount_sat |-> event.amount_sat,
             status |-> debug(event.status)]
      [] event.kind = "ChannelOpened" ->
            [type |-> EventTag(event.kind), timestamp |-> timestamp,
             channel_id |-> to_string(event.channel_id),
             user_channel_id |-> debug(event.user_channel_id),
             counterparty_node_id |-> to_string(event.counterparty_node_id),
             funding_txo |-> to_string(event.funding_txo)]
      [] event.kind = "ChannelClosed" ->
            [type |-> EventTag(event.kind), timestamp |-> timestamp,
             channel_id |-> to_string(event.channel_id),
             user_channel_id |-> debug(event.user_channel_id),
             counterparty_node_id |-> to_string(event.counterparty_node_id),
             reason |-> map_debug(event.reason)]
      [] event.kind = "RebalanceInitiated" ->
            [type |-> EventTag(event.kind), timestamp |-> timestamp,
             trigger_payment_id |-> to_string(event.trigger_payment_id),
             trusted_rebalance_payment_id |->
                 to_lower_hex_string(event.trusted_rebalance_payment_id),
             amount_msat |-> event.amount_msat]
      [] event.kind = "RebalanceSuccessful" ->
            [type |-> EventTag(event.kind), timestamp |-> timestamp,
             trigger_payment_id |-> to_string(event.trigger_payment_id),
             trusted_rebalance_payment_id |->
                 to_lower_hex_string(event.trusted_rebalance_payment_id),
             ln_rebalance_payment_id |-> to_lower_hex_string(event.ln_rebalance_payment_id),
             amount_msat |-> event.amount_msat,
             fee_msat |-> event.fee_msat]
      [] event.kind = "SplicePending" ->
            [type |-> EventTag(event.kind), timestamp |-> timestamp,
             channel_id |-> to_string(event.channel_id),
             user_channel_id |-> debug(event.user_channel_id),
             counterparty_node_id |-> to_string(event.counterparty_node_id),
             new_funding_txo |-> to_string(event.new_funding_txo)]

\* The events and capture times serialize_event is applied to on its own:
\* every variant of Event, amounts on both sides of a multiple of 1000.
AmountsMsat == {0, 999, 5000, 5999}
OptAmounts == {<<>>, <<0>>, <<1500>>}
OptReasons == {<<>>, <<"RouteNotFound">>}
SerTimestamps == {0, 1700000000, 1700000060}
SerEvents ==
    [kind : {"PaymentSuccessful"}, payment_id : {1}, payment_hash : {"aa"},
     payment_preimage : {"bb"}, fee_paid_msat : OptAmounts]
    \cup [kind : {"PaymentFailed"}, payment_id : {1}, payment_hash : {<<>>, <<"aa">>},
          reason : OptReasons]
    \cup [kind : {"PaymentReceived"}, payment_id : {1}, payment_hash : {"aa"},
          amount_msat : AmountsMsat, custom_records : {<<>>, <<"tlv">>},
          lsp_fee_msats : OptAmounts]
    \cup [kind : {"OnchainPaymentReceived"}, payment_id : {1}, txid : {"cc"},
          amount_sat : {0, 5}, status : {"Confirmed"}]
    \cup [kind : {"ChannelOpened"}, channel_id : {1}, user_channel_id : {7},
          counterparty_node_id : {"03bb"}, funding_txo : {"cc:0"}]
    \cup [kind : {"ChannelClosed"}, channel_id : {1}, user_channel_id : {7},
          counterparty_node_id : {"03bb"}, reason : OptReasons]
    \cup [kind : {"RebalanceInitiated"}, trigger_payment_id : {1},
          trusted_rebalance_payment_id : {"dd"}, amount_msat : AmountsMsat]
    \cup [kind : {"RebalanceSuccessful"}, trigger_payment_id : {1},
          trusted_rebalance_payment_id : {"dd"}, ln_rebalance_payment_id : {"ee"},
          amount_msat : AmountsMsat, fee_msat : {0, 1500}]
    \cup [kind : {"SplicePending"}, channel_id : {1}, user_channel_id : {7},
          counterparty_node_id : {"03bb"}, new_funding_txo : {"cc:1"}]

\* serialize_event(&event, timestamp) applied to the chosen event.
Serialize ==
    /\ serDoc = NoValue
    /\ serDoc' = serialize_event(serEvent, serTime)
    /\ UNCHANGED <<daemonVars, cfgVars, mainVars, serEvent, serTime>>

\* ------------------------------------------------------ wallet facade
next_event == IF queue = <<>> THEN None ELSE Some(Head(queue))

event_handled_queue(q) == IF q = <<>> THEN q ELSE Tail(q)

\* Variants of has_webhooks: more than one target needed; always true.
has_webhooks_many == Len(webhooks) > 1
has_webhooks_always == TRUE

has_webhooks == webhooks # <<>>

\* The wallet queues a new event (payment received, channel opened, ...).
WalletEvent ==
    /\ pc \notin {"exited", "killed"}
    /\ produced < MaxEvents
    /\ queue' = Append(queue, EventSource(produced + 1))
    /\ produced' = produced + 1
    /\ UNCHANGED <<webhooks, pc, value, idx, iters, tasks, installed, listening,
                   sigPending, sigSeen, sigSent, sigLost, stderr, stopCalls, cmdRuns,
                   cmdAcks, cmdOut, inflight, cfgVars, mainVars, serVars>>

\* ------------------------------------------------------------ cmd_daemon
\* The event branch starts: capture the timestamp and serialize the event.
TakeEvent ==
    /\ Len(iters) < MaxIters
    /\ Len(tasks) + Len(webhooks) <= MaxTasks
    /\ \E timestamp \in Timestamps :
          /\ value' = serialize_event(Head(queue), timestamp)
          /\ iters' = Append(iters, [event |-> Head(queue), timestamp |-> timestamp,
                                     value |-> serialize_event(Head(queue), timestamp),
                                     logged |-> FALSE, line |-> <<>>,
                                     ack |-> "none"])
    /\ idx' = 1
    /\ pc' = "spawn"
    /\ listening' = FALSE
    /\ sigSeen' = FALSE
    /\ sigLost' = IF sigSeen THEN sigLost + 1 ELSE sigLost
    /\ inflight' = <<>>

\* tokio::select! is entered: both futures are created and polled once, in
\* an order chosen at random.  An event already queued wins this first poll
\* whatever the order; otherwise the task suspends with a ctrl_c listener.
SelectEnter ==
    /\ pc = "loop"
    /\ IF queue # <<>>
       THEN /\ TakeEvent
            /\ \E polledFirst \in {"next_event_async", "ctrl_c"} :
                  installed' = (installed \/ polledFirst = "ctrl_c")
       ELSE /\ pc' = "select"
            /\ listening' = TRUE
            /\ installed' = TRUE
            /\ inflight' = Append(inflight, "next_event_async")
            /\ UNCHANGED <<value, iters, idx, sigSeen, sigLost>>
    /\ UNCHANGED <<webhooks, queue, produced, tasks, sigPending, sigSent, stderr,
                   stopCalls, cmdRuns, cmdAcks, cmdOut, cfgVars, mainVars, serVars>>

\* The suspended select is woken and next_event_async() is the first ready
\* branch polled.
SelectEvent ==
    /\ pc = "select"
    /\ queue # <<>>
    /\ TakeEvent
    /\ UNCHANGED <<webhooks, queue, produced, tasks, installed, sigPending, sigSent,
                   stderr, stopCalls, cmdRuns, cmdAcks, cmdOut, cfgVars, mainVars, serVars>>

\* Variant of SelectSignal: the next_event_async() of the select is kept
\* waiting when the ctrl_c branch is taken.
SelectSignal_keeps_wait ==
    /\ pc = "select"
    /\ sigSeen
    /\ stderr' = [stderr EXCEPT !.shutdown = @ + 1]
    /\ pc' = "stop"
    /\ listening' = FALSE
    /\ sigSeen' = FALSE
    /\ UNCHANGED <<webhooks, queue, produced, value, idx, iters, tasks, installed,
                   sigPending, sigSent, sigLost, stopCalls, cmdRuns, cmdAcks, cmdOut,
                   inflight, cfgVars, mainVars, serVars>>

\* The suspended select is woken and ctrl_c() is the first ready branch polled:
\* select! drops the other branch's future before it runs the handler.
SelectSignal ==
    /\ pc = "select"
    /\ sigSeen
    /\ stderr' = [stderr EXCEPT !.shutdown = @ + 1]
    /\ pc' = "stop"
    /\ listening' = FALSE
    /\ sigSeen' = FALSE
    /\ inflight' = <<>>
    /\ UNCHANGED <<webhooks, queue, produced, value, idx, iters, tasks, installed,
                   sigPending, sigSent, sigLost, stopCalls, cmdRuns, cmdAcks, cmdOut,
                   cfgVars, mainVars, serVars>>

\* Variant of SpawnedTask: every task serializes the event again with its own
\* reading of the clock.
SpawnedTask_own_timestamp(i) ==
    [iter |-> Len(iters), target |-> i, url |-> webhooks[i],
     body |-> serialize_event(iters[Len(iters)].event,
                              iters[Len(iters)].timestamp + i - 1),
     st |-> "inflight"]

\* Variant of SpawnedTask: every task posts to the first target.
SpawnedTask_first(i) ==
    [iter |-> Len(iters), target |-> i, url |-> webhooks[1], body |-> value,
     st |-> "inflight"]

SpawnedTask(i) ==
    [iter |-> Len(iters), target |-> i, url |-> webhooks[i], body |-> value,
     st |-> "inflight"]

\* Variant of Spawn: a task is spawned only when no delivery is outstanding.
Spawn_when_idle ==
    /\ pc = "spawn"
    /\ idx <= Len(webhooks)
    /\ \A i \in DOMAIN tasks : tasks[i].st # "inflight"
    /\ tasks' = Append(tasks, SpawnedTask(idx))
    /\ idx' = idx + 1
    /\ UNCHANGED <<webhooks, queue, produced, pc, value, iters, installed, listening,
                   sigPending, sigSeen, sigSent, sigLost, stderr, stopCalls, cmdRuns,
                   cmdAcks, cmdOut, inflight, cfgVars, mainVars, serVars>>

\* One turn of `for url in webhooks`: tokio::spawn of the POST.
Spawn ==
    /\ pc = "spawn"
    /\ idx <= Len(webhooks)
    /\ tasks' = Append(tasks, SpawnedTask(idx))
    /\ idx' = idx + 1
    /\ UNCHANGED <<webhooks, queue, produced, pc, value, iters, installed, listening,
                   sigPending, sigSeen, sigSent, sigLost, stderr, stopCalls, cmdRuns,
                   cmdAcks, cmdOut, inflight, cfgVars, mainVars, serVars>>

\* eprintln!("[{timestamp}] {}", value["type"]) after the for loop.
LogEvent ==
    /\ pc = "spawn"
    /\ idx > Len(webhooks)
    /\ iters' = [iters EXCEPT ![Len(iters)].logged = TRUE,
                              ![Len(iters)].line =
                                  <<iters[Len(iters)].timestamp, value.type>>]
    /\ stderr' = [stderr EXCEPT !.events = @ + 1]
    /\ pc' = "ack"
    /\ UNCHANGED <<webhooks, queue, produced, value, idx, tasks, installed, listening,
                   sigPending, sigSeen, sigSent, sigLost, stopCalls, cmdRuns, cmdAcks,
                   cmdOut, inflight, cfgVars, mainVars, serVars>>

\* Variant of AutoAck: an Err of event_handled ends the loop.
AutoAck_break_on_err ==
    /\ pc = "ack"
    /\ IF has_webhooks
       THEN \E ok \in BOOLEAN :
               /\ queue' = IF ok THEN event_handled_queue(queue) ELSE queue
               /\ iters' = [iters EXCEPT ![Len(iters)].ack = IF ok THEN "ok" ELSE "err"]
               /\ pc' = IF ok THEN "loop" ELSE "stop"
       ELSE pc' = "loop" /\ UNCHANGED <<queue, iters>>
    /\ UNCHANGED <<webhooks, produced, value, idx, tasks, installed, listening,
                   sigPending, sigSeen, sigSent, sigLost, stderr, stopCalls, cmdRuns,
                   cmdAcks, cmdOut, inflight, cfgVars, mainVars, serVars>>

\* if has_webhooks { let _ = wallet.event_handled(); }
AutoAck ==
    /\ pc = "ack"
    /\ IF has_webhooks
       THEN \E ok \in BOOLEAN :
               /\ queue' = IF ok THEN event_handled_queue(queue) ELSE queue
               /\ iters' = [iters EXCEPT ![Len(iters)].ack = IF ok THEN "ok" ELSE "err"]
       ELSE UNCHANGED <<queue, iters>>
    /\ pc' = "loop"
    /\ UNCHANGED <<webhooks, produced, value, idx, tasks, installed, listening,
                   sigPending, sigSeen, sigSent, sigLost, stderr, stopCalls, cmdRuns,
                   cmdAcks, cmdOut, inflight, cfgVars, mainVars, serVars>>

\* Variant of Stop: the function returns without calling wallet.stop().
Stop_skipped ==
    /\ pc = "stop"
    /\ pc' = "returned"
    /\ UNCHANGED <<webhooks, queue, produced, value, idx, iters, tasks, installed,
                   listening, sigPending, sigSeen, sigSent, sigLost, stderr,
                   stopCalls, cmdRuns, cmdAcks, cmdOut, inflight, cfgVars, mainVars, serVars>>

\* wallet.stop().await after the loop.
Stop ==
    /\ pc = "stop"
    /\ stopCalls' = stopCalls + 1
    /\ pc' = "returned"
    /\ UNCHANGED <<webhooks, queue, produced, value, idx, iters, tasks, installed,
                   listening, sigPending, sigSeen, sigSent, sigLost, stderr, cmdRuns,
                   cmdAcks, cmdOut, inflight, cfgVars, mainVars, serVars>>

DropTasks(ts) ==
    [i \in DOMAIN ts |->
        IF ts[i].st = "inflight" THEN [ts[i] EXCEPT !.st = "cancelled"] ELSE ts[i]]

\* cmd_daemon returned to main, main returns, the runtime is dropped.
MainReturn ==
    /\ pc = "returned"
    /\ pc' = "exited"
    /\ tasks' = DropTasks(tasks)
    /\ UNCHANGED <<webhooks, queue, produced, value, idx, iters, installed, listening,
                   sigPending, sigSeen, sigSent, sigLost, stderr, stopCalls, cmdRuns,
                   cmdAcks, cmdOut, inflight, cfgVars, mainVars, serVars>>

\* ------------------------------------------------------- delivery tasks
Outcomes == {"ok", "status", "err"}

\* Variant of Deliver: a failed delivery is attempted again.
Deliver_retry ==
    /\ pc \notin {"exited", "killed"}
    /\ \E i \in DOMAIN tasks, outcome \in Outcomes :
          /\ tasks[i].st = "inflight"
          /\ tasks' = IF outcome = "ok" \/ Len(tasks) > MaxTasks
                      THEN [tasks EXCEPT ![i].st = outcome]
                      ELSE Append([tasks EXCEPT ![i].st = outcome], tasks[i])
          /\ stderr' = IF outcome = "ok" THEN stderr
                       ELSE [stderr EXCEPT !.webhooks = @ + 1]
    /\ UNCHANGED <<webhooks, queue, produced, pc, value, idx, iters, installed,
                   listening, sigPending, sigSeen, sigSent, sigLost, stopCalls,
                   cmdRuns, cmdAcks, cmdOut, inflight, cfgVars, mainVars, serVars>>

\* client.post(&url).json(&body).send().await resolves in a spawned task.
Deliver ==
    /\ pc \notin {"exited", "killed"}
    /\ \E i \in DOMAIN tasks, outcome \in Outcomes :
          /\ tasks[i].st = "inflight"
          /\ tasks' = [tasks EXCEPT ![i].st = outcome]
          /\ stderr' = IF outcome = "ok" THEN stderr
                       ELSE [stderr EXCEPT !.webhooks = @ + 1]
    /\ UNCHANGED <<webhooks, queue, produced, pc, value, idx, iters, installed,
                   listening, sigPending, sigSeen, sigSent, sigLost, stopCalls,
                   cmdRuns, cmdAcks, cmdOut, inflight, cfgVars, mainVars, serVars>>

\* ---------------------------------------------------------------- SIGINT
InLoop == pc \in {"loop", "select", "spawn", "ack"}

\* The operator presses Ctrl+C.
Interrupt ==
    /\ pc \notin {"exited", "killed"}
    /\ sigSent < MaxSignals
    /\ sigSent' = sigSent + 1
    /\ IF installed
       THEN /\ sigPending' = TRUE
            /\ UNCHANGED <<pc, tasks, listening, inflight>>
       ELSE /\ pc' = "killed"
            /\ tasks' = DropTasks(tasks)
            /\ listening' = FALSE
            /\ inflight' = <<>>
            /\ UNCHANGED sigPending
    /\ UNCHANGED <<webhooks, queue, produced, value, idx, iters, installed, sigSeen,
                   sigLost, stderr, stopCalls, cmdRuns, cmdAcks, cmdOut, cfgVars, mainVars,
                   serVars>>

\* The runtime's signal driver notifies the listeners registered right now.
Broadcast ==
    /\ pc \notin {"exited", "killed"}
    /\ sigPending
    /\ sigPending' = FALSE
    /\ IF listening
       THEN sigSeen' = TRUE /\ UNCHANGED sigLost
       ELSE /\ sigLost' = IF InLoop THEN sigLost + 1 ELSE sigLost
            /\ UNCHANGED sigSeen
    /\ UNCHANGED <<webhooks, queue, produced, pc, value, idx, iters, tasks, installed,
                   listening, sigSent, stderr, stopCalls, cmdRuns, cmdAcks, cmdOut,
                   inflight, cfgVars, mainVars, serVars>>

\* --------------------------------------------------- one-shot commands
cmd_get_event ==
    /\ cmdRuns < MaxCmds
    /\ cmdRuns' = cmdRuns + 1
    /\ LET timestamp == Now
       IN  cmdOut' = IF next_event = None THEN [event |-> "null"]
                     ELSE serialize_event(next_event[1], timestamp)
    /\ UNCHANGED <<webhooks, queue, produced, pc, value, idx, iters, tasks, installed,
                   listening, sigPending, sigSeen, sigSent, sigLost, stderr,
                   stopCalls, cmdAcks, inflight, cfgVars, mainVars, serVars>>

cmd_event_handled ==
    /\ cmdRuns < MaxCmds
    /\ cmdRuns' = cmdRuns + 1
    /\ \E ok \in BOOLEAN :
          IF ok
          THEN /\ queue' = event_handled_queue(queue)
               /\ cmdOut' = [ok |-> TRUE]
               /\ cmdAcks' = cmdAcks + 1
          ELSE /\ cmdOut' = [error |-> "Failed to mark event as handled"]
               /\ UNCHANGED <<queue, cmdAcks>>
    /\ UNCHANGED <<webhooks, produced, pc, value, idx, iters, tasks, installed,
                   listening, sigPending, sigSeen, sigSent, sigLost, stderr,
                   stopCalls, inflight, cfgVars, mainVars, serVars>>


\* ------------------------------------------------------------- config.rs
\* <bitcoin::Network as FromStr>: the names it accepts.
KnownNetworks == {"bitcoin", "testnet", "testnet4", "signet", "regtest"}

Ok(v) == [tag |-> "Ok", value |-> v]
Err(e) == [tag |-> "Err", err |-> e]

\* self.network.parse()
parse_network(s) == IF s \in KnownNetworks THEN Ok(s) ELSE Err("unknown network")

\* The strings of the model's input sets that parse as a socket address, a
\* public key and a BIP39 phrase.
ValidLspAddresses == {"127.0.0.1:9735"}
ValidNodeIds == {"02aa"}
ValidMnemonics == {"abandon ... about"}

parse_address(s) == IF s \in ValidLspAddresses THEN Ok(s) ELSE Err("bad address")
parse_node_id(s) == IF s \in ValidNodeIds THEN Ok(s) ELSE Err("bad key")
Mnemonic_from_str(s) == IF s \in ValidMnemonics THEN Ok(s) ELSE Err("bad phrase")

\* Option::ok_or
ok_or(opt, e) == IF opt = None THEN Err(e) ELSE Ok(opt[1])

\* Variant of bitcoind_rpc_source: port is required before host.
bitcoind_rpc_source_port_first(cs) ==
    LET host == ok_or(cs.host, <<"bitcoind_rpc chain_source requires 'host'">>)
        port == ok_or(cs.port, <<"bitcoind_rpc chain_source requires 'port'">>)
        user == ok_or(cs.username, <<"bitcoind_rpc chain_source requires 'username'">>)
        password == ok_or(cs.password, <<"bitcoind_rpc chain_source requires 'password'">>)
    IN  IF port.tag = "Err" THEN port
        ELSE IF host.tag = "Err" THEN host
        ELSE IF user.tag = "Err" THEN user
        ELSE IF password.tag = "Err" THEN password
        ELSE Ok([variant |-> "BitcoindRPC", host |-> host.value, port |-> port.value,
                 user |-> user.value, password |-> password.value])

\* The "bitcoind_rpc" arm: host, port, username, password with `?` on each.
bitcoind_rpc_source(cs) ==
    LET host == ok_or(cs.host, <<"bitcoind_rpc chain_source requires 'host'">>)
        port == ok_or(cs.port, <<"bitcoind_rpc chain_source requires 'port'">>)
        user == ok_or(cs.username, <<"bitcoind_rpc chain_source requires 'username'">>)
        password == ok_or(cs.password, <<"bitcoind_rpc chain_source requires 'password'">>)
    IN  IF host.tag = "Err" THEN host
        ELSE IF port.tag = "Err" THEN port
        ELSE IF user.tag = "Err" THEN user
        ELSE IF password.tag = "Err" THEN password
        ELSE Ok([variant |-> "BitcoindRPC", host |-> host.value, port |-> port.value,
                 user |-> user.value, password |-> password.value])

\* Variant of chain_source_of: the electrum arm also demands the host that only
\* bitcoind_rpc uses.
chain_source_of_electrum_host(cs) ==
    CASE cs.source_type = "esplora" ->
            LET url == ok_or(cs.url, <<"esplora chain_source requires 'url'">>)
            IN  IF url.tag = "Err" THEN url
                ELSE Ok([variant |-> "Esplora", url |-> url.value,
                         username |-> cs.username, password |-> cs.password])
      [] cs.source_type = "electrum" ->
            LET url == ok_or(cs.url, <<"electrum chain_source requires 'url'">>)
                host == ok_or(cs.host, <<"electrum chain_source requires 'host'">>)
            IN  IF url.tag = "Err" THEN url
                ELSE IF host.tag = "Err" THEN host
                ELSE Ok([variant |-> "Electrum", url |-> url.value])
      [] cs.source_type = "bitcoind_rpc" -> bitcoind_rpc_source(cs)
      [] OTHER -> Err(<<"Unknown chain_source type: ", cs.source_type>>)

\* match self.chain_source.source_type.as_str() { ... }
chain_source_of(cs) ==
    CASE cs.source_type = "esplora" ->
            LET url == ok_or(cs.url, <<"esplora chain_source requires 'url'">>)
            IN  IF url.tag = "Err" THEN url
                ELSE Ok([variant |-> "Esplora", url |-> url.value,
                         username |-> cs.username, password |-> cs.password])
      [] cs.source_type = "electrum" ->
            LET url == ok_or(cs.url, <<"electrum chain_source requires 'url'">>)
            IN  IF url.tag = "Err" THEN url
                ELSE Ok([variant |-> "Electrum", url |-> url.value])
      [] cs.source_type = "bitcoind_rpc" -> bitcoind_rpc_source(cs)
      [] OTHER -> Err(<<"Unknown chain_source type: ", cs.source_type>>)

\* Variant of into_wallet_config: the LSP address is parsed before the chain
\* source is matched.
into_wallet_config_lsp_first(self) ==
    LET network == parse_network(self.network)
        chain_source == chain_source_of(self.chain_source)
        lsp_address == parse_address(self.lsp.address)
        lsp_pubkey == parse_node_id(self.lsp.node_id)
        mnemonic == Mnemonic_from_str(self.mnemonic)
    IN  IF network.tag = "Err" THEN Err(<<"Invalid network: ", self.network>>)
        ELSE IF lsp_address.tag = "Err" THEN Err(<<"Invalid LSP address: ", self.lsp.address>>)
        ELSE IF chain_source.tag = "Err" THEN chain_source
        ELSE IF lsp_pubkey.tag = "Err" THEN Err(<<"Invalid LSP node_id: ", lsp_pubkey.err>>)
        ELSE IF mnemonic.tag = "Err" THEN Err(<<"Invalid mnemonic: ", mnemonic.err>>)
        ELSE Ok([storage_config |-> self.storage_path,
                 logger_type |-> <<self.storage_path, "wallet.log">>,
                 chain_source |-> chain_source.value,
                 lsp |-> <<lsp_address.value, lsp_pubkey.value, self.lsp.token>>,
                 network |-> network.value,
                 seed |-> mnemonic.value,
                 extra_config |-> self.spark])

\* Variant of into_wallet_config: every check runs and the error of the last
\* failing one is returned.
into_wallet_config_last_error(self) ==
    LET network == parse_network(self.network)
        chain_source == chain_source_of(self.chain_source)
        lsp_address == parse_address(self.lsp.address)
        lsp_pubkey == parse_node_id(self.lsp.node_id)
        mnemonic == Mnemonic_from_str(self.mnemonic)
    IN  IF mnemonic.tag = "Err" THEN Err(<<"Invalid mnemonic: ", mnemonic.err>>)
        ELSE IF lsp_pubkey.tag = "Err" THEN Err(<<"Invalid LSP node_id: ", lsp_pubkey.err>>)
        ELSE IF lsp_address.tag = "Err" THEN Err(<<"Invalid LSP address: ", self.lsp.address>>)
        ELSE IF chain_source.tag = "Err" THEN chain_source
        ELSE IF network.tag = "Err" THEN Err(<<"Invalid network: ", self.network>>)
        ELSE Ok([storage_config |-> self.storage_path,
                 logger_type |-> <<self.storage_path, "wallet.log">>,
                 chain_source |-> chain_source.value,
                 lsp |-> <<lsp_address.value, lsp_pubkey.value, self.lsp.token>>,
                 network |-> network.value,
                 seed |-> mnemonic.value,
                 extra_config |-> self.spark])

\* Config::into_wallet_config: each `?` returns the first error.
into_wallet_config(self) ==
    LET network == parse_network(self.network)
        chain_source == chain_source_of(self.chain_source)
        lsp_address == parse_address(self.lsp.address)
        lsp_pubkey == parse_node_id(self.lsp.node_id)
        mnemonic == Mnemonic_from_str(self.mnemonic)
    IN  IF network.tag = "Err" THEN Err(<<"Invalid network: ", self.network>>)
        ELSE IF chain_source.tag = "Err" THEN chain_source
        ELSE IF lsp_address.tag = "Err" THEN Err(<<"Invalid LSP address: ", self.lsp.address>>)
        ELSE IF lsp_pubkey.tag = "Err" THEN Err(<<"Invalid LSP node_id: ", lsp_pubkey.err>>)
        ELSE IF mnemonic.tag = "Err" THEN Err(<<"Invalid mnemonic: ", mnemonic.err>>)
        ELSE Ok([storage_config |-> self.storage_path,
                 logger_type |-> <<self.storage_path, "wallet.log">>,
                 chain_source |-> chain_source.value,
                 lsp |-> <<lsp_address.value, lsp_pubkey.value, self.lsp.token>>,
                 network |-> network.value,
                 seed |-> mnemonic.value,
                 extra_config |-> self.spark])

\* The checks of into_wallet_config that run for self: each `?` returns at the
\* first error, so the sequence ends with the first check that fails.
checks_evaluated(self) ==
    LET network == parse_network(self.network)
        chain_source == chain_source_of(self.chain_source)
        lsp_address == parse_address(self.lsp.address)
        lsp_pubkey == parse_node_id(self.lsp.node_id)
    IN  IF network.tag = "Err" THEN <<"network">>
        ELSE IF chain_source.tag = "Err" THEN <<"network", "chain_source">>
        ELSE IF lsp_address.tag = "Err" THEN <<"network", "chain_source", "lsp.address">>
        ELSE IF lsp_pubkey.tag = "Err"
             THEN <<"network", "chain_source", "lsp.address", "lsp.node_id">>
        ELSE <<"network", "chain_source", "lsp.address", "lsp.node_id", "mnemonic">>

\* The configurations the translation is applied to.
Networks == {"bitcoin", "regtest", "mainnet"}
SourceTypes == {"esplora", "electrum", "bitcoind_rpc", "cbf", "Esplora"}
OptUrls == {None, Some("https://blockstream.info/api")}
OptHosts == {None, Some("127.0.0.1")}
OptPorts == {None, Some(8332)}
OptUsers == {None, Some("user")}
OptPasswords == {None, Some("pw")}
LspAddresses == {"127.0.0.1:9735", "not an address"}
NodeIds == {"02aa", "zz"}
Mnemonics == {"abandon ... about", "one two"}

ChainSourceConfigs ==
    [source_type : SourceTypes, url : OptUrls, host : OptHosts, port : OptPorts,
     username : OptUsers, password : OptPasswords]

DefaultSpark == [sync_interval_secs |-> 60, prefer_spark_over_lightning |-> FALSE]

Configs ==
    [network : Networks, storage_path : {"/var/orange"}, mnemonic : Mnemonics,
     chain_source : ChainSourceConfigs,
     lsp : [address : LspAddresses, node_id : NodeIds, token : {None}],
     spark : {DefaultSpark}]

\* main.rs:88: let wallet_config = match config.into_wallet_config() { ... }
Translate ==
    /\ cfgResult.tag = "NotRun"
    /\ cfgResult' = into_wallet_config(cfg)
    /\ cfgChecks' = checks_evaluated(cfg)
    /\ UNCHANGED <<cfg, daemonVars, mainVars, serVars>>

\* ------------------------------------------------------------------ Spec
ValidConfig ==
    [network |-> "bitcoin", storage_path |-> "/var/orange",
     mnemonic |-> "abandon ... about",
     chain_source |-> [source_type |-> "electrum", url |-> Some("ssl://electrum:50002"),
                       host |-> None, port |-> None, username |-> None,
                       password |-> None],
     lsp |-> [address |-> "127.0.0.1:9735", node_id |-> "02aa", token |-> None],
     spark |-> DefaultSpark]

\* ---------------------------------------------------------------- main
MaxRuns == 2

\* cli.command: the subcommands with the amount argument of receive and send.
CommandNames ==
    {"Balance", "Receive", "ReceiveOffer", "Send", "Parse", "Transactions", "Channels",
     "Info", "EstimateFee", "LightningAddress", "RegisterLightningAddress", "Daemon",
     "GetEvent", "EventHandled"}
Commands ==
    [name : CommandNames \ {"Receive", "Send"}, amount : {None}]
        \cup [name : {"Receive", "Send"}, amount : {None, Some(1000)}]

\* The configuration files main is run with.
MainConfigs ==
    {ValidConfig,
     [ValidConfig EXCEPT !.network = "mainnet"],
     [ValidConfig EXCEPT !.chain_source.source_type = "cbf"],
     [ValidConfig EXCEPT !.mnemonic = "one two"]}

\* Config::load: the file is read, then parsed as TOML.
LoadOutcomes == {"ok", "unreadable", "malformed"}
Config_load(outcome, c) ==
    CASE outcome = "unreadable" -> Err(<<"Failed to read config: ", "io error">>)
      [] outcome = "malformed" -> Err(<<"Failed to parse config: ", "toml error">>)
      [] OTHER -> Ok(c)

print_error(msg) == [error |-> msg]

\* A step of a command function: a call on the wallet that returns a Result
\* (mapped to the message with `?`), a call on the wallet that cannot fail, or a
\* local conversion that returns a Result.
FacadeCall(op, error) == [op |-> op, facade |-> TRUE, fallible |-> TRUE, error |-> error]
FacadeRead(op) == [op |-> op, facade |-> TRUE, fallible |-> FALSE, error |-> <<>>]
LocalCheck(op, error) == [op |-> op, facade |-> FALSE, fallible |-> TRUE, error |-> error]

\* match amount_sats { Some(sats) => Some(Amount::from_sats(sats)...?), None => None }
amount_steps(amount_sats) ==
    IF amount_sats = None THEN <<>>
    ELSE <<LocalCheck("Amount::from_sats", <<"Invalid amount">>)>>

cmd_balance_steps == <<FacadeCall("get_balance", <<"Failed to get balance: ", "e">>)>>

cmd_receive_steps(amount_sats) ==
    amount_steps(amount_sats)
        \o <<FacadeCall("get_single_use_receive_uri",
                        <<"Failed to generate receive URI: ", "e">>)>>

cmd_receive_offer_steps ==
    <<FacadeCall("get_reusable_receive_uri", <<"Failed to get reusable URI: ", "e">>)>>

\* Variant of cmd_send_steps: the payment is sent before the payment info is built.
cmd_send_steps_pay_early(amount_sats) ==
    amount_steps(amount_sats)
        \o <<FacadeCall("parse_payment_instructions", <<"Failed to parse payment: ", "e">>),
             FacadeCall("pay", <<"Failed to send payment: ", "e">>),
             LocalCheck("PaymentInfo::build", <<"Failed to build payment info: ", "e">>)>>

cmd_send_steps(amount_sats) ==
    amount_steps(amount_sats)
        \o <<FacadeCall("parse_payment_instructions", <<"Failed to parse payment: ", "e">>),
             LocalCheck("PaymentInfo::build", <<"Failed to build payment info: ", "e">>),
             FacadeCall("pay", <<"Failed to send payment: ", "e">>)>>

cmd_parse_steps ==
    <<FacadeCall("parse_payment_instructions", <<"Failed to parse payment: ", "e">>)>>

cmd_transactions_steps ==
    <<FacadeCall("list_transactions", <<"Failed to list transactions: ", "e">>)>>

cmd_channels_steps == <<FacadeRead("channels")>>

cmd_info_steps ==
    <<FacadeRead("get_tunables"), FacadeRead("node_id"), FacadeRead("is_connected_to_lsp")>>

\* Variant of cmd_estimate_fee_steps: the fee is learnt by sending the payment.
cmd_estimate_fee_steps_by_paying ==
    <<FacadeCall("parse_payment_instructions",
                 <<"Failed to parse payment for fee estimation: ", "e">>),
      FacadeCall("pay", <<"Failed to send payment: ", "e">>)>>

cmd_estimate_fee_steps ==
    <<FacadeCall("parse_payment_instructions",
                 <<"Failed to parse payment for fee estimation: ", "e">>),
      FacadeRead("estimate_fee")>>

cmd_lightning_address_steps ==
    <<FacadeCall("get_lightning_address", <<"Failed to get lightning address: ", "e">>)>>

cmd_register_lightning_address_steps ==
    <<FacadeCall("register_lightning_address",
                 <<"Failed to register lightning address: ", "e">>),
      FacadeCall("get_lightning_address", <<"Failed to get lightning address: ", "e">>)>>

\* Variant of cmd_get_event_steps: the event read is also marked as handled.
cmd_get_event_steps_consuming ==
    <<FacadeRead("next_event"),
      FacadeCall("event_handled", <<"Failed to mark event as handled">>)>>

cmd_get_event_steps == <<FacadeRead("next_event")>>

cmd_event_handled_steps ==
    <<FacadeCall("event_handled", <<"Failed to mark event as handled">>)>>

\* let result = match cli.command { ... }
StepsOf(c) ==
    CASE c.name = "Balance" -> cmd_balance_steps
      [] c.name = "Receive" -> cmd_receive_steps(c.amount)
      [] c.name = "ReceiveOffer" -> cmd_receive_offer_steps
      [] c.name = "Send" -> cmd_send_steps(c.amount)
      [] c.name = "Parse" -> cmd_parse_steps
      [] c.name = "Transactions" -> cmd_transactions_steps
      [] c.name = "Channels" -> cmd_channels_steps
      [] c.name = "Info" -> cmd_info_steps
      [] c.name = "EstimateFee" -> cmd_estimate_fee_steps
      [] c.name = "LightningAddress" -> cmd_lightning_address_steps
      [] c.name = "RegisterLightningAddress" -> cmd_register_lightning_address_steps
      [] c.name = "GetEvent" -> cmd_get_event_steps
      [] c.name = "EventHandled" -> cmd_event_handled_steps

\* What a successful wallet operation changes in the wallet.
LnName == "alice"
InitialLedger == [paid |-> 0, address |-> None]
ledger_after(op, l) ==
    CASE op = "pay" -> [l EXCEPT !.paid = @ + 1]
      [] op = "register_lightning_address" -> [l EXCEPT !.address = Some(LnName)]
      [] OTHER -> l
queue_after(op, q) == IF op = "event_handled" THEN event_handled_queue(q) ELSE q

\* The Ok(json!({...})) of each command function.
document_of(c, q, l, timestamp) ==
    CASE c.name = "GetEvent" ->
            IF q = <<>> THEN [event |-> "null"] ELSE serialize_event(Head(q), timestamp)
      [] c.name = "EventHandled" -> [ok |-> TRUE]
      [] c.name = "Send" -> [payment_id |-> l.paid, status |-> "initiated"]
      [] c.name = "LightningAddress" -> [lightning_address |-> l.address]
      [] c.name = "RegisterLightningAddress" ->
            [registered |-> TRUE, lightning_address |-> l.address]
      [] OTHER -> [document |-> c.name]

\* print_error(&e); std::process::exit(1);
Exit1(msg) ==
    /\ stdout' = Append(stdout, print_error(msg))
    /\ exitCode' = Some(1)
    /\ mpc' = "exited"

\* main.rs:80-86
LoadConfig ==
    /\ mpc = "load"
    /\ \E outcome \in LoadOutcomes :
          /\ loaded' = Config_load(outcome, cfg)
          /\ IF loaded'.tag = "Ok"
             THEN mpc' = "translate" /\ UNCHANGED <<stdout, exitCode>>
             ELSE Exit1(loaded'.err)
    /\ UNCHANGED <<daemonVars, cfgVars, command, step, calls, result, ledger, runs, lastGet,
                   serVars>>

\* Variant of MainTranslate: the error is printed and main goes on to the wallet.
MainTranslate_continue ==
    /\ mpc = "translate"
    /\ cfgResult' = into_wallet_config(loaded.value)
    /\ cfgChecks' = checks_evaluated(loaded.value)
    /\ mpc' = "wallet_new"
    /\ stdout' = IF cfgResult'.tag = "Ok" THEN stdout
                 ELSE Append(stdout, print_error(cfgResult'.err))
    /\ UNCHANGED <<daemonVars, cfg, command, step, calls, result, exitCode, loaded, ledger,
                   runs, lastGet, serVars>>

\* main.rs:88-94
MainTranslate ==
    /\ mpc = "translate"
    /\ cfgResult' = into_wallet_config(loaded.value)
    /\ cfgChecks' = checks_evaluated(loaded.value)
    /\ IF cfgResult'.tag = "Ok"
       THEN mpc' = "wallet_new" /\ UNCHANGED <<stdout, exitCode>>
       ELSE Exit1(cfgResult'.err)
    /\ UNCHANGED <<daemonVars, cfg, command, step, calls, result, loaded, ledger, runs,
                   lastGet, serVars>>

\* main.rs:96-102
WalletNew ==
    /\ mpc = "wallet_new"
    /\ calls' = Append(calls, "Wallet::new")
    /\ \E ok \in BOOLEAN :
          IF ok THEN mpc' = "dispatch" /\ UNCHANGED <<stdout, exitCode>>
          ELSE Exit1(<<"Failed to initialize wallet: ", "e">>)
    /\ UNCHANGED <<daemonVars, cfgVars, command, step, result, loaded, ledger, runs, lastGet,
                   serVars>>

\* main.rs:105-127: cmd_daemon is entered, or the command function is called.
Dispatch ==
    /\ mpc = "dispatch"
    /\ IF command.name = "Daemon"
       THEN mpc' = "daemon" /\ UNCHANGED step
       ELSE mpc' = "command" /\ step' = 1
    /\ UNCHANGED <<daemonVars, cfgVars, command, calls, result, stdout, exitCode, loaded,
                   ledger, runs, lastGet, serVars>>

\* One statement of the command function: on Err the `?` returns the mapped
\* message; on Ok the wallet has done the operation and the function goes on,
\* or returns its document after the last statement.
CommandStep ==
    /\ mpc = "command"
    /\ LET s == StepsOf(command)[step]
       IN  /\ calls' = IF s.facade THEN Append(calls, s.op) ELSE calls
           /\ \E ok \in (IF s.fallible THEN BOOLEAN ELSE {TRUE}) :
                 IF ok
                 THEN /\ ledger' = ledger_after(s.op, ledger)
                      /\ queue' = queue_after(s.op, queue)
                      /\ lastGet' =
                            CASE s.op = "event_handled" -> None
                              [] s.op = "next_event" ->
                                    Some([head |-> next_event, produced |-> produced,
                                          doc |-> document_of(command, queue, ledger, Now),
                                          n |-> IF lastGet = None THEN 1
                                                ELSE lastGet[1].n + 1])
                              [] OTHER -> lastGet
                      /\ IF step = Len(StepsOf(command))
                         THEN /\ result' = Ok(document_of(command, queue, ledger', Now))
                              /\ mpc' = "print"
                              /\ UNCHANGED step
                         ELSE /\ step' = step + 1
                              /\ UNCHANGED <<result, mpc>>
                 ELSE /\ result' = Err(s.error)
                      /\ mpc' = "print"
                      /\ UNCHANGED <<step, ledger, queue, lastGet>>
    /\ UNCHANGED <<webhooks, produced, pc, value, idx, iters, tasks, installed, listening,
                   sigPending, sigSeen, sigSent, sigLost, stderr, stopCalls, cmdRuns,
                   cmdAcks, cmdOut, inflight, cfgVars, command, stdout, exitCode, loaded,
                   runs, serVars>>

\* main.rs:129-135
PrintResult ==
    /\ mpc = "print"
    /\ IF result.tag = "Ok"
       THEN /\ stdout' = Append(stdout, result.value)
            /\ exitCode' = Some(0)
            /\ mpc' = "exited"
       ELSE Exit1(result.err)
    /\ UNCHANGED <<daemonVars, cfgVars, command, step, calls, result, loaded, ledger, runs,
                   lastGet, serVars>>

NoResult == [tag |-> "NotRun"]

\* The binary is run again with another subcommand on the same wallet.
NextRun ==
    /\ mpc = "exited"
    /\ runs < MaxRuns
    /\ runs' = runs + 1
    /\ command' \in Commands
    /\ mpc' = "load"
    /\ step' = 0
    /\ calls' = <<>>
    /\ result' = NoResult
    /\ stdout' = <<>>
    /\ exitCode' = None
    /\ loaded' = NoResult
    /\ cfgResult' = NoResult
    /\ cfgChecks' = <<>>
    /\ UNCHANGED <<daemonVars, cfg, ledger, lastGet, serVars>>

\* cmd_daemon has started: the wallet exists and the start-up lines are printed.
DaemonInit ==
    /\ webhooks \in {SubSeq(UrlList, 1, n) : n \in 0..MaxHooks}
    /\ queue = <<>>
    /\ produced = 0
    /\ pc = "loop"
    /\ value = NoValue
    /\ idx = 1
    /\ iters = <<>>
    /\ tasks = <<>>
    /\ installed = FALSE
    /\ listening = FALSE
    /\ sigPending = FALSE
    /\ sigSeen = FALSE
    /\ sigSent = 0
    /\ sigLost = 0
    /\ stderr = [events |-> 0, webhooks |-> 0, shutdown |-> 0]
    /\ stopCalls = 0
    /\ inflight = <<>>
    /\ cmdRuns = 0
    /\ cmdAcks = 0
    /\ cmdOut = NoOutput

\* The daemon runs with a configuration that main has translated.
Init ==
    /\ DaemonInit
    /\ cfg = ValidConfig
    /\ cfgResult = into_wallet_config(ValidConfig)
    /\ cfgChecks = checks_evaluated(ValidConfig)
    /\ mpc = "daemon"
    /\ command = [name |-> "Daemon", amount |-> None]
    /\ step = 0
    /\ calls = <<"Wallet::new">>
    /\ result = NoResult
    /\ stdout = <<>>
    /\ exitCode = None
    /\ loaded = Ok(ValidConfig)
    /\ ledger = InitialLedger
    /\ runs = 1
    /\ lastGet = None
    /\ serEvent = EventSource(1)
    /\ serTime = 0
    /\ serDoc = NoValue

Next ==
    \/ WalletEvent
    \/ SelectEnter
    \/ SelectEvent
    \/ SelectSignal
    \/ Spawn
    \/ LogEvent
    \/ AutoAck
    \/ Stop
    \/ MainReturn
    \/ Deliver
    \/ Interrupt
    \/ Broadcast
    \/ cmd_get_event
    \/ cmd_event_handled

Spec == Init /\ [][Next]_vars

\* The translation on its own, over every configuration of Configs.
CfgInit ==
    /\ cfg \in Configs
    /\ cfgResult = [tag |-> "NotRun"]
    /\ cfgChecks = <<>>
    /\ webhooks = <<>>
    /\ queue = <<>>
    /\ produced = 0
    /\ pc = "main"
    /\ value = NoValue
    /\ idx = 1
    /\ iters = <<>>
    /\ tasks = <<>>
    /\ installed = FALSE
    /\ listening = FALSE
    /\ sigPending = FALSE
    /\ sigSeen = FALSE
    /\ sigSent = 0
    /\ sigLost = 0
    /\ stderr = [events |-> 0, webhooks |-> 0, shutdown |-> 0]
    /\ stopCalls = 0
    /\ inflight = <<>>
    /\ cmdRuns = 0
    /\ cmdAcks = 0
    /\ cmdOut = NoOutput

    /\ mpc = "translate"
    /\ command = [name |-> "Balance", amount |-> None]
    /\ step = 0
    /\ calls = <<>>
    /\ result = NoResult
    /\ stdout = <<>>
    /\ exitCode = None
    /\ loaded = Ok(cfg)
    /\ ledger = InitialLedger
    /\ runs = 1
    /\ lastGet = None
    /\ serEvent = EventSource(1)
    /\ serTime = 0
    /\ serDoc = NoValue

CfgNext == Translate

CfgSpec == CfgInit /\ [][CfgNext]_vars

\* main from its first statement, run up to MaxRuns times on one wallet.
MainInit ==
    /\ cfg \in MainConfigs
    /\ cfgResult = NoResult
    /\ cfgChecks = <<>>
    /\ webhooks = <<>>
    /\ queue = <<>>
    /\ produced = 0
    /\ pc = "main"
    /\ value = NoValue
    /\ idx = 1
    /\ iters = <<>>
    /\ tasks = <<>>
    /\ installed = FALSE
    /\ listening = FALSE
    /\ sigPending = FALSE
    /\ sigSeen = FALSE
    /\ sigSent = 0
    /\ sigLost = 0
    /\ stderr = [events |-> 0, webhooks |-> 0, shutdown |-> 0]
    /\ stopCalls = 0
    /\ inflight = <<>>
    /\ cmdRuns = 0
    /\ cmdAcks = 0
    /\ cmdOut = NoOutput
    /\ mpc = "load"
    /\ command \in Commands
    /\ step = 0
    /\ calls = <<>>
    /\ result = NoResult
    /\ stdout = <<>>
    /\ exitCode = None
    /\ loaded = NoResult
    /\ ledger = InitialLedger
    /\ runs = 1
    /\ lastGet = None
    /\ serEvent = EventSource(1)
    /\ serTime = 0
    /\ serDoc = NoValue

MainNext ==
    \/ LoadConfig
    \/ MainTranslate
    \/ WalletNew
    \/ Dispatch
    \/ CommandStep
    \/ PrintResult
    \/ NextRun
    \/ WalletEvent

MainSpec == MainInit /\ [][MainNext]_vars

\* serialize_event on its own, over every event of SerEvents.
SerInit ==
    /\ serEvent \in SerEvents
    /\ serTime \in SerTimestamps
    /\ serDoc = NoValue
    /\ DaemonInit
    /\ cfg = ValidConfig
    /\ cfgResult = into_wallet_config(ValidConfig)
    /\ cfgChecks = checks_evaluated(ValidConfig)
    /\ mpc = "daemon"
    /\ command = [name |-> "Daemon", amount |-> None]
    /\ step = 0
    /\ calls = <<"Wallet::new">>
    /\ result = NoResult
    /\ stdout = <<>>
    /\ exitCode = None
    /\ loaded = Ok(ValidConfig)
    /\ ledger = InitialLedger
    /\ runs = 1
    /\ lastGet = None

SerNext == Serialize

SerSpec == SerInit /\ [][SerNext]_vars

\* ---------------------------------------------------------------- claims
TasksOf(i) == {j \in DOMAIN tasks : tasks[j].iter = i}

\* The loop is back at the top of the loop or beyond for iteration i.
IterDone(i) == i < Len(iters) \/ pc \in {"loop", "select", "stop", "returned", "exited"}

\* C1: with at least one webhook target, every event the select yields is
\* acknowledged (event_handled is called) before the loop waits again, whatever
\* the deliveries do, and never before all the deliveries of that event have
\* been spawned.
C1_AckAfterDispatch ==
    webhooks # <<>> =>
        \A i \in DOMAIN iters :
            /\ IterDone(i) => iters[i].ack \in {"ok", "err"}
            /\ iters[i].ack # "none" =>
                  /\ Cardinality(TasksOf(i)) = Len(webhooks)
                  /\ iters[i].logged

\* An event was acknowledged while one of its deliveries had failed and
\* another was still in flight.
C1_Witness ==
    \E i \in DOMAIN iters :
        /\ iters[i].ack = "ok"
        /\ \E j \in TasksOf(i) : tasks[j].st = "err"
        /\ \E j \in TasksOf(i) : tasks[j].st = "inflight"

\* C2: with no webhook target the daemon logs every event it is given, spawns
\* no delivery and never calls event_handled; the event stays at the head of
\* the queue, where get-event finds it, until a one-shot event-handled
\* command succeeds.
C2_NoAutoAck ==
    /\ [](webhooks = <<>> =>
            /\ tasks = <<>>
            /\ \A i \in DOMAIN iters :
                  /\ iters[i].ack = "none"
                  /\ IterDone(i) => iters[i].logged
                  /\ cmdAcks = 0 => next_event = Some(iters[i].event))
    /\ [][(webhooks = <<>> /\ queue # <<>>
             /\ (queue' = <<>> \/ Head(queue') # Head(queue)))
          => cmdAcks' = cmdAcks + 1]_vars

\* With no target the loop is back at its top, the event it logged is still
\* the head of the queue.
C2_Witness ==
    /\ webhooks = <<>>
    /\ pc = "loop"
    /\ Len(iters) = 1
    /\ iters[1].logged
    /\ next_event = Some(iters[1].event)

\* C3: for N targets and one event the loop spawns exactly N deliveries, the
\* k-th to the k-th target, and its next steps (the log line, the
\* acknowledgment) never wait for a delivery.
C3_OneTaskPerTarget ==
    /\ \A i \in DOMAIN iters :
          /\ \A j \in TasksOf(i) :
                /\ tasks[j].target \in DOMAIN webhooks
                /\ tasks[j].url = webhooks[tasks[j].target]
                /\ \A k \in TasksOf(i) : tasks[k].target = tasks[j].target => k = j
          /\ (iters[i].logged \/ i < Len(iters)) =>
                {tasks[j].target : j \in TasksOf(i)} = DOMAIN webhooks
    /\ (pc = "spawn" /\ idx > Len(webhooks)) => ENABLED LogEvent
    /\ pc = "ack" => ENABLED AutoAck

\* The loop is waiting in select again while the two deliveries of the event
\* it just handled are both still in flight.
C3_Witness ==
    /\ pc = "select"
    /\ Len(webhooks) = 2
    /\ Len(iters) = 1
    /\ Cardinality(TasksOf(1)) = 2
    /\ \A j \in TasksOf(1) : tasks[j].st = "inflight"

\* C4: the daemon loop consumes every queued event exactly once: no two
\* iterations of the event branch serialize, log and fan out the same event.
\* (Fails: next_event_async yields the head of the queue again until it is
\* acknowledged, and without targets the loop never acknowledges.)
C4_ConsumedExactlyOnce ==
    \A i, j \in DOMAIN iters : i # j => iters[i].event # iters[j].event

\* C5: once the select has taken the signal the loop is left for good: no
\* event is serialized, delivered, logged or acknowledged afterwards, and
\* wallet.stop() is called exactly once, after the loop, before cmd_daemon
\* returns.  A signal seen while no event is queued can only take the loop to
\* the shutdown.
C5_ShutdownWhileIdle ==
    /\ [](/\ stopCalls <= 1
          /\ stopCalls = 1 <=> pc \in {"returned", "exited"}
          /\ stderr.shutdown = 1 <=> pc \in {"stop", "returned", "exited"})
    /\ [][pc' \in {"stop", "returned", "exited"} =>
             /\ iters' = iters
             /\ Len(tasks') = Len(tasks)
             /\ stderr'.events = stderr.events
             /\ (queue' # queue => cmdRuns' # cmdRuns \/ produced' # produced)]_vars
    /\ [][(pc = "select" /\ sigSeen /\ queue = <<>> /\ pc' # pc) => pc' = "stop"]_vars

\* The daemon has shut down after a signal taken while idle: an event queued
\* after the signal is still in the queue and no event was ever processed.
C5_Witness ==
    /\ pc = "exited"
    /\ stopCalls = 1
    /\ iters = <<>>
    /\ queue # <<>>

\* C6: a delivery spawned before the shutdown is never cancelled by it: after
\* cmd_daemon and main have returned no delivery has been dropped unfinished.
\* (Fails: main returns right after cmd_daemon and the runtime drops the
\* tasks still waiting for their response.)
C6_DeliveriesSurviveShutdown ==
    pc = "exited" => \A j \in DOMAIN tasks : tasks[j].st # "cancelled"

C8_SignalNeverLost == sigLost = 0

SupportedTypes == {"esplora", "electrum", "bitcoind_rpc"}

Translated == cfgResult.tag # "NotRun"

\* C9 as stated: a configuration whose chain_source.type is not recognized
\* always fails with "Unknown chain_source type: <tag>", whatever the other
\* fields are.  (Fails: the network is parsed first.)
C9_UnknownTypeAlways ==
    (Translated /\ cfg.chain_source.source_type \notin SupportedTypes) =>
        cfgResult = Err(<<"Unknown chain_source type: ", cfg.chain_source.source_type>>)

\* C9 amended: a configuration whose chain_source.type is not recognized
\* always fails; the error is "Unknown chain_source type: <tag>" whenever the
\* network parses, whatever the LSP address, the LSP node id, the mnemonic and
\* the chain-source fields are, and "Invalid network: <value>" otherwise.
C9_UnknownTypeAfterNetwork ==
    (Translated /\ cfg.chain_source.source_type \notin SupportedTypes) =>
        cfgResult = IF cfg.network \in {"bitcoin", "testnet", "testnet4", "signet", "regtest"}
                    THEN Err(<<"Unknown chain_source type: ", cfg.chain_source.source_type>>)
                    ELSE Err(<<"Invalid network: ", cfg.network>>)

\* The unknown tag is reported although the LSP address, the node id and the
\* mnemonic are invalid and no chain-source field is given.
C9_Witness ==
    /\ cfgResult = Err(<<"Unknown chain_source type: ", "cbf">>)
    /\ cfg.lsp.address = "not an address"
    /\ cfg.lsp.node_id = "zz"
    /\ cfg.mnemonic = "one two"
    /\ cfg.chain_source.url = None
    /\ cfg.chain_source.host = None

OtherwiseValid(c) ==
    /\ c.network = "bitcoin" \/ c.network = "regtest"
    /\ c.lsp.address = "127.0.0.1:9735"
    /\ c.lsp.node_id = "02aa"
    /\ c.mnemonic = "abandon ... about"

RequiresMessage(field) ==
    CASE field = "host" -> "bitcoind_rpc chain_source requires 'host'"
      [] field = "port" -> "bitcoind_rpc chain_source requires 'port'"
      [] field = "username" -> "bitcoind_rpc chain_source requires 'username'"
      [] field = "password" -> "bitcoind_rpc chain_source requires 'password'"

AbsentOf(cs) ==
    SelectSeq(<<"host", "port", "username", "password">>, LAMBDA f : cs[f] = None)

\* C10: for chain_source.type = "bitcoind_rpc" in an otherwise valid
\* configuration the translation fails iff one of host, port, username,
\* password is absent, and the error names the first absent one in that order.
C10_BitcoindFirstMissing ==
    (Translated /\ cfg.chain_source.source_type = "bitcoind_rpc" /\ OtherwiseValid(cfg)) =>
        IF AbsentOf(cfg.chain_source) = <<>>
        THEN /\ cfgResult.tag = "Ok"
             /\ cfgResult.value.chain_source =
                   [variant |-> "BitcoindRPC", host |-> cfg.chain_source.host[1],
                    port |-> cfg.chain_source.port[1],
                    user |-> cfg.chain_source.username[1],
                    password |-> cfg.chain_source.password[1]]
        ELSE cfgResult = Err(<<RequiresMessage(Head(AbsentOf(cfg.chain_source)))>>)

\* host and port are both absent and the error cites host.
C10_Witness ==
    /\ cfg.chain_source.source_type = "bitcoind_rpc"
    /\ OtherwiseValid(cfg)
    /\ cfg.chain_source.host = None
    /\ cfg.chain_source.port = None
    /\ cfg.chain_source.username # None
    /\ cfgResult = Err(<<"bitcoind_rpc chain_source requires 'host'">>)

\* The fields each supported variant requires (config.rs, the arms of the match).
RequiredFields(t) ==
    CASE t = "esplora" -> <<"url">>
      [] t = "electrum" -> <<"url">>
      [] t = "bitcoind_rpc" -> <<"host", "port", "username", "password">>
      [] OTHER -> <<>>

MissingOf(cs) ==
    SelectSeq(RequiredFields(cs.source_type), LAMBDA f : cs[f] = None)

RequirementError(t, field) ==
    CASE t = "esplora" /\ field = "url" -> Err(<<"esplora chain_source requires 'url'">>)
      [] t = "electrum" /\ field = "url" -> Err(<<"electrum chain_source requires 'url'">>)
      [] t = "bitcoind_rpc" -> Err(<<RequiresMessage(field)>>)

\* The chain-source sections that differ from cs only in fields its variant
\* does not require.
SameRequired(cs) ==
    {d \in ChainSourceConfigs :
        /\ d.source_type = cs.source_type
        /\ \A f \in Range(RequiredFields(cs.source_type)) : d[f] = cs[f]}

\* C11: for esplora, electrum and bitcoind_rpc in an otherwise valid
\* configuration the translation succeeds iff every field the variant requires
\* is present; with one absent the error names a field that variant requires;
\* the presence or absence of the other fields changes neither success nor the
\* error; esplora's username and password reach the descriptor unchanged.
C11_RequiredFieldsPerVariant ==
    (Translated /\ cfg.chain_source.source_type \in {"esplora", "electrum", "bitcoind_rpc"}
        /\ OtherwiseValid(cfg)) =>
        LET cs == cfg.chain_source
            t == cs.source_type
        IN  /\ cfgResult.tag = "Ok" <=> MissingOf(cs) = <<>>
            /\ MissingOf(cs) # <<>> =>
                  \E f \in Range(RequiredFields(t)) :
                      cs[f] = None /\ cfgResult = RequirementError(t, f)
            /\ \A d \in SameRequired(cs) :
                  LET other == into_wallet_config([cfg EXCEPT !.chain_source = d])
                  IN  /\ other.tag = cfgResult.tag
                      /\ other.tag = "Err" => other = cfgResult
            /\ (cfgResult.tag = "Ok" /\ t = "esplora") =>
                  cfgResult.value.chain_source =
                      [variant |-> "Esplora", url |-> cs.url[1],
                       username |-> cs.username, password |-> cs.password]
            /\ (cfgResult.tag = "Ok" /\ t = "electrum") =>
                  cfgResult.value.chain_source = [variant |-> "Electrum", url |-> cs.url[1]]

\* An electrum section with only its url succeeds although host, port,
\* username and password are absent.
C11_Witness ==
    /\ Translated
    /\ OtherwiseValid(cfg)
    /\ cfg.chain_source.source_type = "electrum"
    /\ cfg.chain_source.url # None
    /\ cfg.chain_source.host = None
    /\ cfg.chain_source.port = None
    /\ cfg.chain_source.username = None
    /\ cfg.chain_source.password = None
    /\ cfgResult.tag = "Ok"

CheckOrder == <<"network", "chain_source", "lsp.address", "lsp.node_id", "mnemonic">>

\* Whether check k of CheckOrder accepts configuration c.
Validates(c, k) ==
    CASE k = "network" -> c.network \in KnownNetworks
      [] k = "chain_source" ->
            /\ c.chain_source.source_type \in SupportedTypes
            /\ MissingOf(c.chain_source) = <<>>
      [] k = "lsp.address" -> c.lsp.address \in ValidLspAddresses
      [] k = "lsp.node_id" -> c.lsp.node_id \in ValidNodeIds
      [] k = "mnemonic" -> c.mnemonic \in ValidMnemonics

\* The error check k of CheckOrder reports for configuration c.
ErrorOf(c, k) ==
    CASE k = "network" -> Err(<<"Invalid network: ", c.network>>)
      [] k = "chain_source" ->
            IF c.chain_source.source_type \notin SupportedTypes
            THEN Err(<<"Unknown chain_source type: ", c.chain_source.source_type>>)
            ELSE RequirementError(c.chain_source.source_type, Head(MissingOf(c.chain_source)))
      [] k = "lsp.address" -> Err(<<"Invalid LSP address: ", c.lsp.address>>)
      [] k = "lsp.node_id" -> Err(<<"Invalid LSP node_id: ", "bad key">>)
      [] k = "mnemonic" -> Err(<<"Invalid mnemonic: ", "bad phrase">>)

FailingChecks(c) == {i \in DOMAIN CheckOrder : ~Validates(c, CheckOrder[i])}
FirstFailing(c) == CHOOSE i \in FailingChecks(c) : \A j \in FailingChecks(c) : i <= j

DescriptorFields ==
    {"storage_config", "logger_type", "chain_source", "lsp", "network", "seed",
     "extra_config"}

\* C12: the translation returns a complete descriptor exactly when the
\* network, the chain source, the LSP address, the LSP node id and the mnemonic
\* all validate; otherwise it returns one error and no descriptor, the error is
\* that of the first failing check in that order, and the checks after it are
\* not evaluated.
C12_FirstErrorOnly ==
    Translated =>
        IF FailingChecks(cfg) = {}
        THEN /\ cfgResult.tag = "Ok"
             /\ DOMAIN cfgResult = {"tag", "value"}
             /\ DOMAIN cfgResult.value = DescriptorFields
             /\ cfgChecks = CheckOrder
        ELSE /\ cfgResult = ErrorOf(cfg, CheckOrder[FirstFailing(cfg)])
             /\ DOMAIN cfgResult = {"tag", "err"}
             /\ cfgChecks = SubSeq(CheckOrder, 1, FirstFailing(cfg))

\* The chain source, the LSP address and the mnemonic are all invalid: the
\* error is the chain source's and the LSP checks were not evaluated.
C12_Witness ==
    /\ Translated
    /\ FailingChecks(cfg) = {2, 3, 5}
    /\ cfgResult = Err(<<"esplora chain_source requires 'url'">>)
    /\ cfgChecks = <<"network", "chain_source">>

\* The wallet operations that change the wallet.
MutatingOps == {"pay", "event_handled", "register_lightning_address", "stop"}

\* C13: a run of parse or estimate-fee never invokes pay, event_handled,
\* register_lightning_address or stop, whatever the wallet answers, and none of
\* its steps changes the event queue or the wallet's payments and address.
C13_PreviewsReadOnly ==
    /\ [](command.name \in {"Parse", "EstimateFee"} =>
             \A i \in DOMAIN calls : calls[i] \notin MutatingOps)
    /\ [][(command.name \in {"Parse", "EstimateFee"} /\ produced' = produced
              /\ runs' = runs) =>
             (queue' = queue /\ ledger' = ledger)]_vars

\* estimate-fee has run to its document with an event waiting in the queue.
C13_Witness ==
    /\ command.name = "EstimateFee"
    /\ calls = <<"Wallet::new", "parse_payment_instructions", "estimate_fee">>
    /\ mpc = "exited"
    /\ exitCode = Some(0)
    /\ queue # <<>>

\* C16: when Config::load or into_wallet_config has failed, the run has printed
\* exactly one document, the error, and exited with status 1; no Wallet::new
\* and no wallet operation was invoked, and main is in neither the dispatcher,
\* a command function, nor cmd_daemon.
C16_ValidationErrorFatal ==
    (loaded.tag = "Err" \/ cfgResult.tag = "Err") =>
        /\ mpc = "exited"
        /\ stdout = <<[error |-> IF loaded.tag = "Err" THEN loaded.err ELSE cfgResult.err]>>
        /\ exitCode = Some(1)
        /\ calls = <<>>
        /\ step = 0

\* `orange daemon` with an unknown chain_source type: the error is printed and
\* the run is over.
C16_Witness ==
    /\ command.name = "Daemon"
    /\ cfgResult = Err(<<"Unknown chain_source type: ", "cbf">>)
    /\ stdout = <<[error |-> <<"Unknown chain_source type: ", "cbf">>]>>
    /\ mpc = "exited"

\* The nine variants of Event with the type tag each arm of serialize_event writes.
TagTable ==
    {<<"PaymentSuccessful", "payment_successful">>, <<"PaymentFailed", "payment_failed">>,
     <<"PaymentReceived", "payment_received">>,
     <<"OnchainPaymentReceived", "onchain_payment_received">>,
     <<"ChannelOpened", "channel_opened">>, <<"ChannelClosed", "channel_closed">>,
     <<"RebalanceInitiated", "rebalance_initiated">>,
     <<"RebalanceSuccessful", "rebalance_successful">>,
     <<"SplicePending", "splice_pending">>}

\* The fields of a document that carry an amount that is always present.
AmountFields == {"amount_msat", "amount_sat", "fee_msat"}
\* The amounts the wallet may leave out.
OptAmountFields == {"fee_paid_msat", "lsp_fee_msats"}

\* C15: the document of an event has the one tag of the event's variant, the
\* nine tags being distinct; its timestamp is the timestamp passed in; its
\* amounts are the event's integers; and for payment_received amount_msat is
\* the event's and amount_sats is amount_msat / 1000 rounded down.
C15_CanonicalDocument ==
    /\ Cardinality({p[1] : p \in TagTable}) = 9
    /\ Cardinality({p[2] : p \in TagTable}) = 9
    /\ serDoc # NoValue =>
          /\ <<serEvent.kind, serDoc.type>> \in TagTable
          /\ serDoc.timestamp = serTime
          /\ \A f \in AmountFields \cap DOMAIN serEvent :
                f \in DOMAIN serDoc /\ serDoc[f] = serEvent[f] /\ serDoc[f] \in Nat
          /\ \A f \in OptAmountFields \cap DOMAIN serEvent :
                /\ f \in DOMAIN serDoc
                /\ serDoc[f] = serEvent[f]
                /\ serDoc[f] # <<>> => serDoc[f][1] \in Nat
          /\ serEvent.kind = "PaymentReceived" =>
                /\ serDoc.amount_msat = serEvent.amount_msat
                /\ serDoc.amount_sats \in Nat
                /\ serDoc.amount_sats * 1000 <= serEvent.amount_msat
                /\ serEvent.amount_msat < (serDoc.amount_sats + 1) * 1000
                /\ serEvent.amount_msat = 5000 => serDoc.amount_sats = 5

\* A payment of 5999 msat is reported as 5 sats.
C15_Witness ==
    /\ serEvent.kind = "PaymentReceived"
    /\ serEvent.amount_msat = 5999
    /\ serTime = 1700000060
    /\ serDoc # NoValue
    /\ serDoc.type = "payment_received"
    /\ serDoc.amount_sats = 5
    /\ serDoc.timestamp = 1700000060

\* A document without its capture time.
EventOf(doc) == IF "timestamp" \in DOMAIN doc THEN [doc EXCEPT !.timestamp = 0] ELSE doc

\* The command function of the run returns in this step.
Returns(name) == mpc = "command" /\ command.name = name /\ mpc' = "print"

\* C19: get-event leaves the queue as it is and returns the document of its
\* head, or {"event": null} as a success when it is empty; a get-event that
\* follows another with no removal in between returns the same event;
\* event-handled removes the head and nothing else and returns {"ok": true},
\* or returns the error and leaves the queue when the wallet refuses; no other
\* one-shot command changes the queue.
C19_GetEventNonConsuming ==
    /\ [][Returns("GetEvent") =>
             /\ queue' = queue
             /\ result' = Ok(IF queue = <<>> THEN [event |-> "null"]
                             ELSE serialize_event(Head(queue), Now))
             /\ (lastGet # None /\ (lastGet[1].head # None \/ lastGet[1].produced = produced))
                   => /\ EventOf(result'.value) = EventOf(lastGet[1].doc)
                      /\ next_event = lastGet[1].head]_vars
    /\ [][Returns("EventHandled") =>
             IF result'.tag = "Ok"
             THEN /\ queue' = IF queue = <<>> THEN <<>> ELSE Tail(queue)
                  /\ result'.value = [ok |-> TRUE]
             ELSE /\ queue' = queue
                  /\ result'.err = <<"Failed to mark event as handled">>]_vars
    /\ [][(mpc = "command" /\ command.name # "EventHandled" /\ produced' = produced) =>
             queue' = queue]_vars
    /\ []((mpc = "exited" /\ result # NoResult /\ command.name \in {"GetEvent", "EventHandled"}) =>
             IF result.tag = "Ok"
             THEN stdout = <<result.value>> /\ exitCode = Some(0)
             ELSE stdout = <<[error |-> result.err]>> /\ exitCode = Some(1))

\* Two runs of get-event in a row, at different times, printed the same event,
\* which is still the head of the queue.
C19_Witness ==
    /\ runs = 2
    /\ command.name = "GetEvent"
    /\ mpc = "exited"
    /\ lastGet # None
    /\ lastGet[1].n = 2
    /\ lastGet[1].head = Some(EventSource(1))
    /\ stdout = <<lastGet[1].doc>>
    /\ stdout[1].type = "payment_received"
    /\ queue = <<EventSource(1)>>

\* C14: cmd_daemon never has two calls on the wallet in flight; event_handled
\* and stop are called only when no call is in flight, so stop comes after the
\* pending next_event_async() was dropped; and a step of a delivery task
\* changes nothing of the wallet and starts no call on it.
C14_FacadeSequential ==
    /\ [](Len(inflight) <= 1)
    /\ [][stopCalls' # stopCalls => (pc = "stop" /\ inflight = <<>>)]_vars
    /\ [][(pc = "ack" /\ iters' # iters) => inflight = <<>>]_vars
    /\ [][(Len(tasks') = Len(tasks) /\ tasks' # tasks /\ pc' = pc) =>
             UNCHANGED <<queue, inflight, stopCalls, iters>>]_vars
    /\ [](\A i \in DOMAIN tasks : DOMAIN tasks[i] = {"iter", "target", "url", "body", "st"})

\* wallet.stop() has been called after a wait for the next event was pending
\* and dropped, while a delivery task of the acknowledged event is outstanding.
C14_Witness ==
    /\ stopCalls = 1
    /\ inflight = <<>>
    /\ Len(iters) = 1
    /\ iters[1].ack = "ok"
    /\ stderr.shutdown = 1
    /\ \E i \in DOMAIN tasks : tasks[i].st = "inflight"

\* C17: every task spawned for an event carries the document that was
\* serialized once for it, with its one capture timestamp, and the log line of
\* the event reports that timestamp and that document's type; no step changes
\* the body of an existing task, and a step of a delivery task changes neither
\* the loop's document nor the record of the iteration.
C17_OnePayloadPerEvent ==
    /\ [](\A j \in DOMAIN tasks :
             LET it == iters[tasks[j].iter]
             IN  /\ tasks[j].body = it.value
                 /\ it.value = serialize_event(it.event, it.timestamp)
                 /\ tasks[j].body.timestamp = it.timestamp
                 /\ it.logged => it.line = <<tasks[j].body.timestamp, tasks[j].body.type>>)
    /\ [](\A i \in DOMAIN iters :
             iters[i].logged => iters[i].line = <<iters[i].value.timestamp, iters[i].value.type>>)
    /\ [][\A j \in DOMAIN tasks : tasks'[j].body = tasks[j].body]_vars
    /\ [][(Len(tasks') = Len(tasks) /\ tasks' # tasks /\ pc' = pc) =>
             (value' = value /\ iters' = iters)]_vars

\* Two targets: one task has delivered its body and the other still holds the
\* same body, the document the loop serialized and logged.
C17_Witness ==
    /\ Len(webhooks) = 2
    /\ Len(iters) = 1
    /\ iters[1].logged
    /\ iters[1].line = <<1700000000, "payment_received">>
    /\ \E j, k \in DOMAIN tasks :
          /\ tasks[j].target = 1 /\ tasks[k].target = 2
          /\ tasks[j].st = "ok" /\ tasks[k].st = "inflight"
          /\ tasks[j].body = tasks[k].body
          /\ tasks[k].body = iters[1].value
          /\ tasks[k].body.timestamp = 1700000000

\* The delivery tasks that have not resolved.
Outstanding(ts) == Cardinality({i \in DOMAIN ts : ts[i].st = "inflight"})

C20_AckFailureIgnored ==
    /\ [][(pc = "ack" /\ iters' # iters /\ iters'[Len(iters)].ack = "err") =>
             /\ pc' = "loop"
             /\ UNCHANGED <<stderr, queue, stopCalls, tasks>>
             /\ cmdAcks > 0 \/ next_event = Some(iters[Len(iters)].event)]_vars
    /\ [][\A i \in DOMAIN iters :
             iters[i].ack # "none" => iters'[i].ack = iters[i].ack]_vars
    /\ [](\A i \in DOMAIN iters :
             (iters[i].ack = "err" /\ i + 1 \in DOMAIN iters /\ cmdAcks = 0) =>
                 /\ iters[i + 1].event = iters[i].event
                 /\ iters[i + 1].logged =>
                       {tasks[j].target : j \in TasksOf(i + 1)} = DOMAIN webhooks)

\* The first acknowledgment failed and the second iteration has delivered the
\* same event again, with a later timestamp.
C20_Witness ==
    /\ Len(webhooks) = 1
    /\ Len(iters) = 2
    /\ iters[1].ack = "err"
    /\ iters[2].event = iters[1].event
    /\ iters[2].timestamp > iters[1].timestamp
    /\ iters[2].logged
    /\ stderr.events = 2
    /\ \E j \in TasksOf(1), k \in TasksOf(2) :
          tasks[j].st = "ok" /\ tasks[k].st = "ok" /\ tasks[j].url = tasks[k].url

\* The messages of cmd_send's failures before the payment is sent.
SendEarlyErrors ==
    {<<"Invalid amount">>, <<"Failed to parse payment: ", "e">>,
     <<"Failed to build payment info: ", "e">>}

\* C21: a run of a one-shot command invokes each wallet operation at most
\* once; once a call has failed the run makes no further call on the wallet,
\* prints the error document and exits with status 1; send has not invoked pay
\* when the amount, the parsing or the building of the payment info failed, and
\* register-lightning-address has not queried the address when the
\* registration failed.
C21_StopsAtFirstError ==
    /\ [](\A i, j \in DOMAIN calls : calls[i] = calls[j] => i = j)
    /\ [][(result.tag = "Err" /\ runs' = runs) =>
             (calls' = calls /\ result' = result /\ ledger' = ledger)]_vars
    /\ [][(mpc = "command" /\ result'.tag = "Err") => mpc' = "print"]_vars
    /\ []((mpc = "exited" /\ result.tag = "Err") =>
             (stdout = <<[error |-> result.err]>> /\ exitCode = Some(1)))
    /\ []((command.name = "Send" /\ result.tag = "Err" /\ result.err \in SendEarlyErrors) =>
             \A i \in DOMAIN calls : calls[i] # "pay")
    /\ []((command.name = "RegisterLightningAddress" /\ result.tag = "Err"
              /\ result.err = <<"Failed to register lightning address: ", "e">>) =>
             \A i \in DOMAIN calls : calls[i] # "get_lightning_address")

\* send parsed the payment string, failed to build the payment info, and the
\* run ended with the error and status 1 without a call of pay.
C21_Witness ==
    /\ command.name = "Send"
    /\ mpc = "exited"
    /\ result = Err(<<"Failed to build payment info: ", "e">>)
    /\ calls = <<"Wallet::new", "parse_payment_instructions">>
    /\ stdout = <<[error |-> <<"Failed to build payment info: ", "e">>]>>
    /\ exitCode = Some(1)
    /\ ledger.paid = 0

====
